---------------------------- MODULE Spec2Model ----------------------------
(***************************************************************************)
(* Model of cloudwatch_mcp_server.py: the Bedrock invocation log pipeline  *)
(* (get_bedrock_logs), the DataFrame conversion (get_bedrock_logs_df) and   *)
(* the three grouped usage summaries exposed as MCP tools.                  *)
(*                                                                         *)
(* The log stream is a sequence of raw CloudWatch events.  A tool call is  *)
(* run as a sequence of steps: argument validation, entry of               *)
(* get_bedrock_logs (client creation, time window, empty accumulator), one *)
(* step per fetched page, one step per processed event, the return of      *)
(* get_bedrock_logs, the DataFrame construction and the aggregation.       *)
(***************************************************************************)
EXTENDS Integers, Sequences, FiniteSets, TLC

(***************************************************************************)
(* Bounds of the model.                                                    *)
(***************************************************************************)
\* Largest number of raw events held by the log stream.
MaxEvents == 3

(***************************************************************************)
(* JSON values as json.loads produces them.  A value is a tagged record;   *)
(* Python's None is JNull, a dict is JObj(f) with f a function from its    *)
(* keys to values, a list is JList(s).                                     *)
(***************************************************************************)
JNull == [t |-> "null"]
JInt(n) == [t |-> "int", n |-> n]
JStr(s) == [t |-> "str", s |-> s]
JList(s) == [t |-> "list", items |-> s]
JObj(f) == [t |-> "obj", f |-> f]
\* The literal {} used as the default of the chained .get calls.
EmptyDict == JObj(<<>>)

\* dict.get(key, default).  The caller checks IsDict first: .get on a value
\* that is no dict raises AttributeError.
IsDict(v) == v.t = "obj"
Get(v, k, d) == IF k \in DOMAIN v.f THEN v.f[k] ELSE d

\* Python truthiness of a JSON value.
Truthy(v) ==
    CASE v.t = "null" -> FALSE
      [] v.t = "int" -> v.n # 0
      [] v.t = "str" -> v.s # ""
      [] v.t = "list" -> v.items # <<>>
      [] v.t = "obj" -> DOMAIN v.f # {}

(***************************************************************************)
(* Time.  Milliseconds since the epoch, as the query parameters are.       *)
(***************************************************************************)
DayMs == 86400000
\* datetime.now(): the clock is held fixed, so that two calls with the same
\* days_back ask for the same window.
NowMs == 10 * DayMs
\* Ingestion times of the events of the stream: twelve hours ago, three
\* days ago.
Recent == NowMs - (DayMs \div 2)
Older == NowMs - 3 * DayMs

(***************************************************************************)
(* The message texts that occur in the stream, and json.loads on them.     *)
(***************************************************************************)
TxtNotJson == "not json"
TxtArray == "[1]"
TxtInputNull == "{\"modelId\":\"m1\",\"input\":null}"
TxtTokenNull == "{\"modelId\":\"m1\",\"input\":{\"inputTokenCount\":null},\"output\":{\"outputTokenCount\":5}}"
TxtFull == "{\"timestamp\":\"2024-01-01T10:00:00Z\",\"region\":\"us-east-1\",\"modelId\":\"m1\",\"identity\":{\"arn\":\"u1\"},\"input\":{\"inputTokenCount\":10,\"inputBodyJson\":{\"messages\":[{\"role\":\"user\",\"content\":[{\"text\":\"hi\"},{\"text\":\"there\"}]},{\"role\":\"assistant\",\"content\":[{\"text\":\"yo\"}]}]}},\"output\":{\"outputTokenCount\":5}}"
TxtSecond == "{\"timestamp\":\"2024-01-02T09:30:00Z\",\"region\":\"us-east-1\",\"modelId\":\"m1\",\"identity\":{\"arn\":\"u2\"},\"input\":{\"inputTokenCount\":20},\"output\":{\"outputTokenCount\":0}}"
TxtNoModel == "{\"region\":\"us-east-1\",\"input\":{\"inputTokenCount\":3}}"
TxtNoInput == "{\"timestamp\":\"2024-01-01T23:00:00Z\",\"modelId\":\"m2\",\"output\":{\"outputTokenCount\":5}}"
TxtBadTime == "{\"timestamp\":\"yesterday\",\"modelId\":\"m2\"}"

ValFull ==
    JObj([timestamp |-> JStr("2024-01-01T10:00:00Z"),
          region |-> JStr("us-east-1"),
          modelId |-> JStr("m1"),
          identity |-> JObj([arn |-> JStr("u1")]),
          input |-> JObj([inputTokenCount |-> JInt(10),
                          inputBodyJson |-> JObj([messages |-> JList(<<
                              JObj([role |-> JStr("user"),
                                    content |-> JList(<<JObj([text |-> JStr("hi")]),
                                                        JObj([text |-> JStr("there")])>>)]),
                              JObj([role |-> JStr("assistant"),
                                    content |-> JList(<<JObj([text |-> JStr("yo")])>>)])
                              >>)])]),
          output |-> JObj([outputTokenCount |-> JInt(5)])])
ValSecond ==
    JObj([timestamp |-> JStr("2024-01-02T09:30:00Z"),
          region |-> JStr("us-east-1"),
          modelId |-> JStr("m1"),
          identity |-> JObj([arn |-> JStr("u2")]),
          input |-> JObj([inputTokenCount |-> JInt(20)]),
          output |-> JObj([outputTokenCount |-> JInt(0)])])
ValNoModel ==
    JObj([region |-> JStr("us-east-1"),
          input |-> JObj([inputTokenCount |-> JInt(3)])])
ValNoInput ==
    JObj([timestamp |-> JStr("2024-01-01T23:00:00Z"),
          modelId |-> JStr("m2"),
          output |-> JObj([outputTokenCount |-> JInt(5)])])
ValBadTime ==
    JObj([timestamp |-> JStr("yesterday"), modelId |-> JStr("m2")])
ValTokenNull ==
    JObj([modelId |-> JStr("m1"),
          input |-> JObj([inputTokenCount |-> JNull]),
          output |-> JObj([outputTokenCount |-> JInt(5)])])
ValInputNull == JObj([modelId |-> JStr("m1"), input |-> JNull])

\* json.loads(text): the decoded value, or JSONDecodeError.
json_loads(text) ==
    CASE text = TxtArray -> [exc |-> "none", val |-> JList(<<JInt(1)>>)]
      [] text = TxtInputNull -> [exc |-> "none", val |-> ValInputNull]
      [] text = TxtTokenNull -> [exc |-> "none", val |-> ValTokenNull]
      [] text = TxtFull -> [exc |-> "none", val |-> ValFull]
      [] text = TxtSecond -> [exc |-> "none", val |-> ValSecond]
      [] text = TxtNoModel -> [exc |-> "none", val |-> ValNoModel]
      [] text = TxtNoInput -> [exc |-> "none", val |-> ValNoInput]
      [] text = TxtBadTime -> [exc |-> "none", val |-> ValBadTime]
      [] OTHER -> [exc |-> "JSONDecodeError", val |-> JNull]

\* The raw events the stream may hold.  Every CloudWatch event carries its
\* ingestion time; one kind has no "message" key.
RawEvents ==
    {[timestamp |-> Recent]}
    \cup {[timestamp |-> Recent, message |-> m] :
              m \in {TxtNotJson, TxtArray, TxtInputNull, TxtTokenNull,
                     TxtFull, TxtNoModel, TxtNoInput, TxtBadTime}}
    \cup {[timestamp |-> Older, message |-> TxtSecond]}


(***************************************************************************)
(* The body of the per-event try block of get_bedrock_logs.  Every         *)
(* operator returns a record whose exc field names the exception raised    *)
(* ("none" when the statement completes).                                  *)
(***************************************************************************)
\* The elements a for loop draws from value v.  A list yields its items.  A
\* non-empty dict or string yields strings (keys, characters): one stands
\* for them, since the loop bodies fault on the first.  Anything else is
\* not iterable.
Elements(v) ==
    CASE v.t = "list" -> [exc |-> "none", items |-> v.items]
      [] v.t \in {"obj", "str"} -> [exc |-> "none", items |-> <<JStr("k")>>]
      [] OTHER -> [exc |-> "TypeError", items |-> <<>>]

\* for content in msg["content"]: if content.get("text"): prompt += ...
RECURSIVE PromptOfContents(_, _)
PromptOfContents(items, parts) ==
    IF items = <<>> THEN [exc |-> "none", parts |-> parts]
    ELSE LET content == Head(items) IN
         IF ~IsDict(content) THEN [exc |-> "AttributeError", parts |-> parts]
         ELSE LET text == Get(content, "text", JNull) IN
              IF ~Truthy(text) THEN PromptOfContents(Tail(items), parts)
              ELSE IF text.t # "str" THEN [exc |-> "TypeError", parts |-> parts]
              ELSE PromptOfContents(Tail(items), Append(parts, text.s))

\* for msg in message["input"]["inputBodyJson"]["messages"]: ...
RECURSIVE PromptOfMessages(_, _)
PromptOfMessages(msgs, parts) ==
    IF msgs = <<>> THEN [exc |-> "none", parts |-> parts]
    ELSE LET msg == Head(msgs) IN
         IF ~IsDict(msg) THEN [exc |-> "AttributeError", parts |-> parts]
         ELSE IF Get(msg, "role", JNull) = JStr("user")
                 /\ Truthy(Get(msg, "content", JNull))
              THEN LET it == Elements(msg.f["content"]) IN
                   IF it.exc # "none" THEN [exc |-> it.exc, parts |-> parts]
                   ELSE LET r == PromptOfContents(it.items, parts) IN
                        IF r.exc # "none" THEN r
                        ELSE PromptOfMessages(Tail(msgs), r.parts)
              ELSE PromptOfMessages(Tail(msgs), parts)

\* Lines 60-71: the user prompt, as the texts that are joined by spaces and
\* stripped.  It is computed and then dropped: no field of the record
\* holds it.
Prompt(message) ==
    IF ~IsDict(message) THEN [exc |-> "AttributeError", parts |-> <<>>]
    ELSE LET input == Get(message, "input", EmptyDict) IN
         IF ~IsDict(input) THEN [exc |-> "AttributeError", parts |-> <<>>]
         ELSE LET body == Get(input, "inputBodyJson", EmptyDict) IN
              IF ~IsDict(body) THEN [exc |-> "AttributeError", parts |-> <<>>]
              ELSE LET messages == Get(body, "messages", JNull) IN
                   IF ~Truthy(messages) THEN [exc |-> "none", parts |-> <<>>]
                   ELSE LET it == Elements(messages) IN
                        IF it.exc # "none" THEN [exc |-> it.exc, parts |-> <<>>]
                        ELSE PromptOfMessages(it.items, <<>>)

\* A variant of Add that forgets the completion count.
AddInputOnly(a, b) ==
    IF a.t = "int" /\ b.t = "int"
    THEN [exc |-> "none", val |-> JInt(a.n)]
    ELSE [exc |-> "TypeError", val |-> JNull]

\* Python's a + b on two token counts: integers add, None (or a mix of
\* types) raises TypeError.
Add(a, b) ==
    IF a.t = "int" /\ b.t = "int"
    THEN [exc |-> "none", val |-> JInt(a.n + b.n)]
    ELSE [exc |-> "TypeError", val |-> JNull]

\* Lines 74-87: the filtered_event literal.  message is a dict here: the
\* prompt lines ran first.
FilteredEvent(message) ==
    LET identity == Get(message, "identity", EmptyDict)
        input == Get(message, "input", EmptyDict)
        output == Get(message, "output", EmptyDict)
    IN  IF ~IsDict(identity) \/ ~IsDict(input) \/ ~IsDict(output)
        THEN [exc |-> "AttributeError", rec |-> <<>>]
        ELSE LET total == Add(Get(input, "inputTokenCount", JInt(0)),
                              Get(output, "outputTokenCount", JInt(0)))
             IN  IF total.exc # "none" THEN [exc |-> total.exc, rec |-> <<>>]
                 ELSE [exc |-> "none",
                       rec |-> [timestamp |-> Get(message, "timestamp", JNull),
                                region |-> Get(message, "region", JNull),
                                modelId |-> Get(message, "modelId", JNull),
                                userId |-> Get(identity, "arn", JNull),
                                inputTokens |-> Get(input, "inputTokenCount", JNull),
                                completionTokens |-> Get(output, "outputTokenCount", JNull),
                                totalTokens |-> total.val]]

\* Lines 56-87: event["message"], json.loads, the prompt, the record.
ExtractEvent(event) ==
    IF "message" \notin DOMAIN event THEN [exc |-> "KeyError", rec |-> <<>>]
    ELSE LET parsed == json_loads(event.message) IN
         IF parsed.exc # "none" THEN [exc |-> parsed.exc, rec |-> <<>>]
         ELSE LET p == Prompt(parsed.val) IN
              IF p.exc # "none" THEN [exc |-> p.exc, rec |-> <<>>]
              ELSE FilteredEvent(parsed.val)

\* Lines 90-93: the exceptions the per-event try block catches.
CaughtPerEvent == {"JSONDecodeError", "KeyError"}

(***************************************************************************)
(* The log service: filter_log_events on the fixed log group and stream,   *)
(* between startTime and endTime, paginated.                               *)
(***************************************************************************)
\* Events per response page.
PageSize == 2

Min(a, b) == IF a <= b THEN a ELSE b

\* The events of the stream whose ingestion time lies in the window.
Matching(events, startTime, endTime) ==
    SelectSeq(events, LAMBDA e : startTime <= e.timestamp /\ e.timestamp <= endTime)

\* The number of responses the paginator yields: the service always answers
\* a first request, and hands out a next token while events remain.
NumPages(events) ==
    IF events = <<>> THEN 1 ELSE (Len(events) + PageSize - 1) \div PageSize

\* page.get("events", []) of the k-th response.
PageAt(events, k) ==
    SubSeq(events, (k - 1) * PageSize + 1, Min(k * PageSize, Len(events)))

\* The outcomes of one request: a page, the log group or stream is missing,
\* any other fault (throttling, credentials, network).
FetchOutcomes == {"page", "ResourceNotFoundException", "ClientError"}

\* Line 27: boto3.client("logs") returns a client or raises (no region, no
\* credentials file, ...).
ClientOutcomes == {"client", "NoRegionError"}

(***************************************************************************)
(* The tool interface.                                                     *)
(***************************************************************************)
Tools == {"get_bedrock_logs_df", "get_model_usage_stats",
          "get_user_usage_stats", "get_daily_usage_stats"}
StatsTools == Tools \ {"get_bedrock_logs_df"}

\* The request arguments a client may send.
Requests == {EmptyDict, JObj([days |-> JInt(1)]), JObj([days |-> JInt(-1)]),
             JObj([days |-> JStr("seven")])}

\* Lines 107-110: DaysParam.  days defaults to 7 and must be an int; the
\* field carries no range constraint.
DaysDefault == 7
DaysParam(request) ==
    LET days == Get(request, "days", JInt(DaysDefault)) IN
    IF days.t = "int" THEN [exc |-> "none", days |-> days.n]
    ELSE [exc |-> "ValidationError", days |-> 0]

(***************************************************************************)
(* pandas.                                                                 *)
(***************************************************************************)
NaT == [t |-> "NaT"]
\* pd.to_datetime on one timestamp value: None becomes NaT, an ISO string
\* its datetime (kept as its calendar date and the text), any other string
\* raises.
ToDatetime(v) ==
    CASE v.t = "null" -> [exc |-> "none", val |-> NaT]
      [] v = JStr("2024-01-01T10:00:00Z") ->
            [exc |-> "none", val |-> [t |-> "datetime", date |-> "2024-01-01", iso |-> v.s]]
      [] v = JStr("2024-01-01T23:00:00Z") ->
            [exc |-> "none", val |-> [t |-> "datetime", date |-> "2024-01-01", iso |-> v.s]]
      [] v = JStr("2024-01-02T09:30:00Z") ->
            [exc |-> "none", val |-> [t |-> "datetime", date |-> "2024-01-02", iso |-> v.s]]
      [] OTHER -> [exc |-> "ValueError", val |-> NaT]

\* pd.DataFrame(): no rows.
EmptyFrame == [kind |-> "frame", rows |-> <<>>]
\* pd.DataFrame(logs): one row per record.
DataFrame(logs) == [kind |-> "frame", rows |-> logs]
\* A variant of IsEmpty that never reports an empty frame.
NeverEmpty(df) == FALSE
\* df.empty
IsEmpty(df) == df.rows = <<>>

\* Line 141: df["timestamp"] = pd.to_datetime(df["timestamp"]).
TimestampFaults(df) ==
    \E i \in 1..Len(df.rows) : ToDatetime(df.rows[i].timestamp).exc # "none"
WithDatetimes(df) ==
    [df EXCEPT !.rows = [i \in 1..Len(df.rows) |->
        [df.rows[i] EXCEPT !.timestamp = ToDatetime(df.rows[i].timestamp).val]]]

\* The grouping key of a row: the modelId, the userId, or the calendar date
\* of the converted timestamp (df["timestamp"].dt.date).
GroupKey(tool, row) ==
    CASE tool = "get_model_usage_stats" -> row.modelId
      [] tool = "get_user_usage_stats" -> row.userId
      [] OTHER -> IF row.timestamp.t = "datetime"
                  THEN JStr(row.timestamp.date) ELSE NaT

\* groupby(...): one group per key value that is not null; rows whose key is
\* None or NaT belong to no group (dropna defaults to True).
GroupKeys(tool, df) ==
    {GroupKey(tool, df.rows[i]) : i \in 1..Len(df.rows)}
        \ {JNull, NaT}
GroupRows(tool, df, k) ==
    SelectSeq(df.rows, LAMBDA row : GroupKey(tool, row) = k)

\* A variant of NonNull that takes None for the value 0 (size in place of
\* count).
RECURSIVE NonNullAsZero(_, _)
NonNullAsZero(rows, col) ==
    IF rows = <<>> THEN <<>>
    ELSE <<IF Head(rows)[col].t = "int" THEN Head(rows)[col].n ELSE 0>>
             \o NonNullAsZero(Tail(rows), col)

\* The values of a column that count, sum and mean look at: those that are
\* not None.
RECURSIVE NonNull(_, _)
NonNull(rows, col) ==
    IF rows = <<>> THEN <<>>
    ELSE IF Head(rows)[col].t = "int"
         THEN <<Head(rows)[col].n>> \o NonNull(Tail(rows), col)
         ELSE NonNull(Tail(rows), col)

RECURSIVE SumSeq(_)
SumSeq(xs) == IF xs = <<>> THEN 0 ELSE Head(xs) + SumSeq(Tail(xs))

\* mean(...).round(2), in hundredths; NaN when no value counts.  The token
\* counts are not negative, and no mean of so few values lies on a rounding
\* tie, so rounding half up is rounding half to even here.
NaN == [t |-> "NaN"]
Mean(xs) ==
    IF xs = <<>> THEN NaN
    ELSE [t |-> "float", x100 |-> (200 * SumSeq(xs) + Len(xs)) \div (2 * Len(xs))]

\* The "modelId": lambda x: list(set(x)) column: the distinct values, in no
\* order.
DistinctModels(rows) == {rows[i].modelId : i \in 1..Len(rows)}

\* .agg({...}) on the rows of one group.
GroupStats(tool, rows) ==
    LET inp == NonNull(rows, "inputTokens")
        com == NonNull(rows, "completionTokens")
        tot == NonNull(rows, "totalTokens")
        base == [inputTokens_count |-> Len(inp),
                 inputTokens_sum |-> SumSeq(inp),
                 inputTokens_mean |-> Mean(inp),
                 completionTokens_sum |-> SumSeq(com),
                 completionTokens_mean |-> Mean(com),
                 totalTokens_sum |-> SumSeq(tot),
                 totalTokens_mean |-> Mean(tot)]
    IN  IF tool = "get_model_usage_stats" THEN base
        ELSE [k \in DOMAIN base \cup {"modelId"} |->
                 IF k = "modelId" THEN DistinctModels(rows) ELSE base[k]]

\* Lines 162-172, 191-202, 221-232: groupby(...).agg(...).round(2).
Summary(tool, df) ==
    [kind |-> "summary",
     groups |-> [k \in GroupKeys(tool, df) |->
                    GroupStats(tool, GroupRows(tool, df, k))]]

\* A token column in which every value is None has dtype object.  Whether
\* "mean" on such a column yields NaN or raises depends on the pandas
\* release: both outcomes are possible.
AllNone(df, col) == \A i \in 1..Len(df.rows) : df.rows[i][col].t = "null"
AggOutcomes(df) ==
    IF AllNone(df, "inputTokens") \/ AllNone(df, "completionTokens")
    THEN {"summary", "TypeError"} ELSE {"summary"}

(***************************************************************************)
(* State.                                                                  *)
(***************************************************************************)
VARIABLES
    store,          \* the raw events of the log stream, oldest first
    pc,             \* where the tool call in flight stands
    tool,           \* the tool operation that was called
    days,           \* params.days, after validation
    client,         \* get_bedrock_logs: the CloudWatch Logs client
    start_time_ms,  \* get_bedrock_logs: the window, in milliseconds
    end_time_ms,
    filtered_logs,  \* get_bedrock_logs: the accumulated records
    pageNo,         \* the pages the paginator has yielded so far
    page,           \* the events of the current page still to be processed
    logs,           \* get_bedrock_logs_df: the value get_bedrock_logs returned
    df,             \* the DataFrame
    result,         \* the value the tool returned
    outcome,        \* "none", "returned", "raised" (an exception reached the
                    \* caller of the tool), "rejected" (invalid arguments)
    error,          \* the exception of a raised or rejected call
    fault,          \* history: the fault get_bedrock_logs caught in this call
    diag,           \* the diagnostic get_bedrock_logs printed
    queries,        \* history: the filter_log_events requests of this call
    grouped,        \* history: whether this call ran a groupby
    prior           \* history: how the previous call of the session ended

vars == <<store, pc, tool, days, client, start_time_ms, end_time_ms,
          filtered_logs, pageNo, page, logs, df, result, outcome, error,
          fault, diag, queries, grouped, prior>>

\* The variables of the get_bedrock_logs frame.
frame == <<client, start_time_ms, end_time_ms, filtered_logs, pageNo, page>>
\* What the caller of the tool observes, and the history of the call.
response == <<result, outcome, error>>
history == <<fault, diag, queries, grouped>>

\* All sequences of at most n elements of S.
SeqsUpTo(S, n) == UNION {[1..k -> S] : k \in 0..n}

\* The value of a variable that holds nothing yet.
None == JNull
\* An exception, with the function whose statement raised it.
Raised(exc, origin) == [exc |-> exc, origin |-> origin]
NoError == Raised("", "")

\* The stream is ordered by ingestion time, as the service returns it.
Ordered(events) ==
    \A i \in 1..Len(events) - 1 : events[i].timestamp <= events[i + 1].timestamp

InitCall ==
    /\ pc = "idle"
    /\ tool = "" /\ days = 0
    /\ client = "" /\ start_time_ms = 0 /\ end_time_ms = 0
    /\ filtered_logs = <<>> /\ pageNo = 0 /\ page = <<>>
    /\ logs = <<>> /\ df = EmptyFrame /\ result = None
    /\ outcome = "none" /\ error = NoError
    /\ fault = "none" /\ diag = "" /\ queries = 0 /\ grouped = FALSE
    /\ prior = "none"

Init ==
    /\ store \in {s \in SeqsUpTo(RawEvents, MaxEvents) : Ordered(s)}
    /\ InitCall

(***************************************************************************)
(* The steps of a tool call.                                               *)
(***************************************************************************)
\* The transport validates the arguments against DaysParam and runs the
\* tool; a validation error is answered without running it.
ToolCall(t, request) ==
    /\ pc = "idle"
    /\ LET p == DaysParam(request) IN
       IF p.exc # "none"
       THEN /\ pc' = "done"
            /\ outcome' = "rejected"
            /\ error' = Raised(p.exc, "DaysParam")
            /\ UNCHANGED <<tool, days>>
       ELSE /\ pc' = "call"
            /\ tool' = t
            /\ days' = p.days
            /\ UNCHANGED <<outcome, error>>
    /\ UNCHANGED <<store, frame, logs, df, result, history, prior>>

\* A variant of NewLogs in which the accumulator outlives the call (a list
\* created once, as a mutable default argument is).
SharedLogs == filtered_logs
\* Line 37: filtered_logs = [].
NewLogs == <<>>

\* Lines 27-50: get_bedrock_logs up to the loop.  The client is created
\* outside the try block: a fault there leaves get_bedrock_logs,
\* get_bedrock_logs_df and the tool, none of which handles it.
Enter(c) ==
    /\ pc = "call"
    /\ IF c # "client"
       THEN /\ pc' = "done"
            /\ outcome' = "raised"
            /\ error' = Raised(c, "get_bedrock_logs")
            /\ UNCHANGED frame
       ELSE /\ pc' = "loop"
            /\ client' = c
            /\ end_time_ms' = NowMs
            /\ start_time_ms' = NowMs - days * DayMs
            /\ filtered_logs' = NewLogs
            /\ pageNo' = 0
            /\ page' = <<>>
            /\ UNCHANGED <<outcome, error>>
    /\ UNCHANGED <<store, tool, days, logs, df, result, history, prior>>

\* The events the query of this call matches.
Wanted == Matching(store, start_time_ms, end_time_ms)

\* A variant of Accumulate that inserts at the front.
AccumulateFront(records, rec) == <<rec>> \o records
\* Line 89: filtered_logs.append(filtered_event).
Accumulate(records, rec) == Append(records, rec)

\* A variant of OnFault that returns what was accumulated.
PartialOnFault == filtered_logs
\* Lines 97-104: the value get_bedrock_logs returns from its handlers.
OnFault == <<>>

\* Line 53: the paginator issues the next request.  A fault is caught by
\* the handlers of lines 97-104.
FetchPage(o) ==
    /\ pc = "loop" /\ page = <<>> /\ pageNo < NumPages(Wanted)
    /\ queries' = queries + 1
    /\ IF o = "page"
       THEN /\ pageNo' = pageNo + 1
            /\ page' = PageAt(Wanted, pageNo + 1)
            /\ UNCHANGED <<pc, logs, fault, diag>>
       ELSE /\ pc' = "returned"
            /\ logs' = OnFault
            /\ fault' = o
            /\ diag' = IF o = "ResourceNotFoundException"
                       THEN "Log group or stream not found"
                       ELSE "Error retrieving logs"
            /\ UNCHANGED <<pageNo, page>>
    /\ UNCHANGED <<store, tool, days, client, start_time_ms, end_time_ms,
                   filtered_logs, df, response, grouped, prior>>

\* Lines 54-93: one event of the page.  JSONDecodeError and KeyError skip
\* the event; any other exception leaves both loops and is caught by line
\* 102.
ProcessEvent ==
    /\ pc = "loop" /\ page # <<>>
    /\ LET r == ExtractEvent(Head(page)) IN
       IF r.exc = "none"
       THEN /\ filtered_logs' = Accumulate(filtered_logs, r.rec)
            /\ page' = Tail(page)
            /\ UNCHANGED <<pc, logs, fault, diag>>
       ELSE IF r.exc \in CaughtPerEvent
       THEN /\ page' = Tail(page)
            /\ UNCHANGED <<pc, filtered_logs, logs, fault, diag>>
       ELSE /\ pc' = "returned"
            /\ logs' = OnFault
            /\ fault' = r.exc
            /\ diag' = "Error retrieving logs"
            /\ UNCHANGED <<filtered_logs, page>>
    /\ UNCHANGED <<store, tool, days, client, start_time_ms, end_time_ms,
                   pageNo, df, response, queries, grouped, prior>>

\* Line 95: the paginator is exhausted; return filtered_logs.
ReturnLogs ==
    /\ pc = "loop" /\ page = <<>> /\ pageNo = NumPages(Wanted)
    /\ pc' = "returned"
    /\ logs' = filtered_logs
    /\ UNCHANGED <<store, tool, days, frame, df, response, history, prior>>

\* Lines 139-143: get_bedrock_logs_df builds the DataFrame and returns it,
\* to the transport or to the statistics tool that awaits it.  A timestamp
\* pd.to_datetime cannot parse raises; nothing handles it.
BuildFrame ==
    /\ pc = "returned"
    /\ LET raw == DataFrame(logs) IN
       IF ~IsEmpty(raw) /\ TimestampFaults(raw)
       THEN /\ pc' = "done"
            /\ outcome' = "raised"
            /\ error' = Raised("ValueError", "get_bedrock_logs_df")
            /\ UNCHANGED <<df, result>>
       ELSE /\ df' = IF IsEmpty(raw) THEN raw ELSE WithDatetimes(raw)
            /\ IF tool = "get_bedrock_logs_df"
               THEN /\ pc' = "done"
                    /\ outcome' = "returned"
                    /\ result' = df'
                    /\ UNCHANGED error
               ELSE /\ pc' = "stats"
                    /\ UNCHANGED response
    /\ UNCHANGED <<store, tool, days, frame, logs, history, prior>>

\* Lines 159-172, 188-202, 218-232: the empty check and the aggregation.
Aggregate(o) ==
    /\ pc = "stats"
    /\ pc' = "done"
    /\ IF IsEmpty(df)
       THEN /\ o = "summary"
            /\ outcome' = "returned"
            /\ result' = EmptyFrame
            /\ UNCHANGED <<error, grouped>>
       ELSE /\ o \in AggOutcomes(df)
            /\ grouped' = TRUE
            /\ IF o = "summary"
               THEN /\ outcome' = "returned"
                    /\ result' = Summary(tool, df)
                    /\ UNCHANGED error
               ELSE /\ outcome' = "raised"
                    /\ error' = Raised(o, tool)
                    /\ UNCHANGED result
    /\ UNCHANGED <<store, tool, days, frame, logs, df, fault, diag, queries, prior>>

Next ==
    \/ \E t \in Tools, request \in Requests : ToolCall(t, request)
    \/ \E c \in ClientOutcomes : Enter(c)
    \/ \E o \in FetchOutcomes : FetchPage(o)
    \/ ProcessEvent
    \/ ReturnLogs
    \/ BuildFrame
    \/ \E o \in {"summary", "TypeError"} : Aggregate(o)

Spec == Init /\ [][Next]_vars

(***************************************************************************)
(* A session: the server answers one request after the other (line 237).   *)
(* The response and the frames of the tool are gone when the next request  *)
(* is dispatched; the variables of get_bedrock_logs keep their last value  *)
(* until lines 27-37 assign them again.                                    *)
(***************************************************************************)
\* Largest number of raw events held by the log stream of a session.
MaxSessionEvents == 2

IsEmptyResult(r) ==
    IF r.kind = "frame" THEN r.rows = <<>> ELSE DOMAIN r.groups = {}

NextRequest ==
    /\ pc = "done"
    /\ pc' = "idle"
    /\ prior' = IF outcome # "returned" THEN outcome
                ELSE IF IsEmptyResult(result) THEN "empty" ELSE "returned"
    /\ tool' = "" /\ days' = 0
    /\ logs' = <<>> /\ df' = EmptyFrame /\ result' = None
    /\ outcome' = "none" /\ error' = NoError
    /\ fault' = "none" /\ diag' = "" /\ queries' = 0 /\ grouped' = FALSE
    /\ UNCHANGED <<store, frame>>

SessionInit ==
    /\ store \in {s \in SeqsUpTo(RawEvents, MaxSessionEvents) : Ordered(s)}
    /\ InitCall

SessionNext == Next \/ NextRequest

SessionSpec == SessionInit /\ [][SessionNext]_vars


(***************************************************************************)
(* Reference definitions for the properties.                               *)
(***************************************************************************)
\* The event is extracted without any exception.
WellFormed(e) == ExtractEvent(e).exc = "none"
\* The event has a message that json.loads rejects.
NonJson(e) == "message" \in DOMAIN e /\ json_loads(e.message).exc # "none"

\* The records of the well-formed events, in the order of the events.
RECURSIVE Projection(_)
Projection(events) ==
    IF events = <<>> THEN <<>>
    ELSE (IF WellFormed(Head(events)) THEN <<ExtractEvent(Head(events)).rec>> ELSE <<>>)
             \o Projection(Tail(events))

\* get_bedrock_logs has just returned: logs holds its value.
LogsReturned == pc = "returned"
\* The tool has answered with a value.
Answered == pc = "done" /\ outcome = "returned"

Zero(v) == IF v.t = "int" THEN v.n ELSE 0

\* C1: no exception of get_bedrock_logs reaches its caller, and the value
\* it returns after a fault is the empty sequence.
C1_NoExceptionEscapes ==
    /\ error.origin # "get_bedrock_logs"
    /\ (LogsReturned /\ fault # "none") => logs = <<>>

\* C2: an event that raises a field-access fault other than KeyError is
\* skipped on its own: the record of every well-formed event of the fetch
\* is in the returned sequence.
C2_MalformedEventSkippedAlone ==
    (LogsReturned /\ fault \in {"AttributeError", "TypeError"}) =>
        \A i \in 1..Len(Wanted) :
            WellFormed(Wanted[i]) =>
                \E j \in 1..Len(logs) : logs[j] = ExtractEvent(Wanted[i]).rec

OnlyNonJsonOrWellFormed(events) ==
    \A i \in 1..Len(events) : NonJson(events[i]) \/ WellFormed(events[i])
\* C3: when no fetch faults and every event is non-JSON or well-formed, the
\* returned sequence is the records of the events that are not non-JSON, in
\* page order and in-page order.
C3_ProjectionInOrder ==
    (LogsReturned /\ fault = "none" /\ OnlyNonJsonOrWellFormed(Wanted)) =>
        LET kept == SelectSeq(Wanted, LAMBDA e : ~NonJson(e)) IN
        /\ Len(logs) = Len(kept)
        /\ \A i \in 1..Len(kept) : logs[i] = ExtractEvent(kept[i]).rec
C3_Witness ==
    /\ LogsReturned /\ fault = "none" /\ OnlyNonJsonOrWellFormed(Wanted)
    /\ pageNo = 2 /\ Len(Wanted) = 3 /\ NonJson(Wanted[2])
    /\ Len(logs) = 2 /\ logs[1] # logs[2]

\* C4: a negative days value is rejected before any query is issued: a call
\* whose days is negative issues no query.
C4_NegativeDaysRejected == days < 0 => queries = 0

\* C5: when get_bedrock_logs yields no records, each tool returns an empty
\* result, raises nothing and runs no groupby.
C5_EmptyFetchEmptyResult ==
    (pc = "done" /\ outcome # "rejected" /\ error.origin # "get_bedrock_logs"
        /\ logs = <<>>) =>
        /\ outcome = "returned"
        /\ result = EmptyFrame
        /\ ~grouped
C5_Witness ==
    /\ Answered /\ tool = "get_user_usage_stats"
    /\ fault = "ResourceNotFoundException" /\ logs = <<>>
    /\ result = EmptyFrame

TotalIsSum(rec) ==
    /\ rec.totalTokens.t = "int"
    /\ rec.totalTokens.n = Zero(rec.inputTokens) + Zero(rec.completionTokens)
HasCount(env, side, key) ==
    /\ side \in DOMAIN env.f
    /\ IsDict(env.f[side])
    /\ key \in DOMAIN env.f[side].f
PresentSum(env) ==
    (IF HasCount(env, "input", "inputTokenCount")
     THEN env.f["input"].f["inputTokenCount"].n ELSE 0)
    + (IF HasCount(env, "output", "outputTokenCount")
       THEN env.f["output"].f["outputTokenCount"].n ELSE 0)
LacksCount(e) ==
    LET env == json_loads(e.message).val IN
    \/ ~HasCount(env, "input", "inputTokenCount")
    \/ ~HasCount(env, "output", "outputTokenCount")
RecordKey(t, rec) ==
    CASE t = "get_model_usage_stats" -> rec.modelId
      [] t = "get_user_usage_stats" -> rec.userId
      [] t = "get_daily_usage_stats" ->
            IF rec.timestamp.t = "str"
            THEN JStr(ToDatetime(rec.timestamp).val.date) ELSE JNull
Members(t, records, k) == {i \in 1..Len(records) : RecordKey(t, records[i]) = k}
RECURSIVE SumOver(_, _, _)
SumOver(records, I, col) ==
    IF I = {} THEN 0
    ELSE LET i == CHOOSE x \in I : TRUE IN
         Zero(records[i][col]) + SumOver(records, I \ {i}, col)
\* C7: every group of a summary reports the sums of the token columns over
\* the records with the group's key, and the number of those records whose
\* inputTokens is not null.
C7_GroupSums ==
    (Answered /\ grouped) =>
        \A k \in DOMAIN result.groups :
            LET g == result.groups[k]
                I == Members(tool, logs, k)
            IN  /\ I # {}
                /\ g.inputTokens_sum = SumOver(logs, I, "inputTokens")
                /\ g.inputTokens_count =
                       Cardinality({i \in I : logs[i].inputTokens.t # "null"})
                /\ g.completionTokens_sum = SumOver(logs, I, "completionTokens")
                /\ g.totalTokens_sum = SumOver(logs, I, "totalTokens")
C7_Witness ==
    /\ Answered /\ grouped /\ tool = "get_model_usage_stats"
    /\ JStr("m1") \in DOMAIN result.groups
    /\ LET g == result.groups[JStr("m1")] IN
       /\ g.inputTokens_count = 2
       /\ g.inputTokens_sum = 30
       /\ g.completionTokens_sum = 5
       /\ g.totalTokens_sum = 35
    /\ \E i \in 1..Len(Wanted) : NonJson(Wanted[i])

RECURSIVE GroupTotal(_, _)
GroupTotal(groups, K) ==
    IF K = {} THEN 0
    ELSE LET k == CHOOSE x \in K : TRUE IN
         groups[k].totalTokens_sum + GroupTotal(groups, K \ {k})
\* C8: in the per-model and per-user summaries the records with a null key
\* form a group of their own, so that the totalTokens sums of the groups
\* add up to the totalTokens sum of all extracted records.
C8_NullKeyGroup ==
    (Answered /\ grouped
        /\ tool \in {"get_model_usage_stats", "get_user_usage_stats"}) =>
        /\ (\E i \in 1..Len(logs) : RecordKey(tool, logs[i]) = JNull)
               => JNull \in DOMAIN result.groups
        /\ GroupTotal(result.groups, DOMAIN result.groups)
               = SumOver(logs, 1..Len(logs), "totalTokens")

ToolAnswers(t, records) ==
    LET raw == DataFrame(records) IN
    IF records # <<>> /\ TimestampFaults(raw)
    THEN {[outcome |-> "raised", result |-> None,
           error |-> Raised("ValueError", "get_bedrock_logs_df")]}
    ELSE LET frame_ == IF records = <<>> THEN raw ELSE WithDatetimes(raw) IN
         IF t = "get_bedrock_logs_df"
         THEN {[outcome |-> "returned", result |-> frame_, error |-> NoError]}
         ELSE IF records = <<>>
         THEN {[outcome |-> "returned", result |-> EmptyFrame, error |-> NoError]}
         ELSE {[outcome |-> "returned", result |-> Summary(t, frame_), error |-> NoError]}
              \cup {[outcome |-> "raised", result |-> None, error |-> Raised(o, t)] :
                        o \in AggOutcomes(frame_) \ {"summary"}}
AnswersAlone(t, d, f) ==
    {[outcome |-> "raised", result |-> None,
      error |-> Raised(c, "get_bedrock_logs")] : c \in ClientOutcomes \ {"client"}}
    \cup ToolAnswers(t, IF f # "none" THEN <<>>
                        ELSE Projection(Matching(store, NowMs - d * DayMs, NowMs)))
\* C9: the answer of a call is one the same call gives when it is the only
\* call made on the stream: it depends on the tool, on days, on the stream
\* and on the fault met in this call, and on no call before it.
C9_NoStateAcrossCalls ==
    (pc = "done" /\ outcome # "rejected") =>
        [outcome |-> outcome, result |-> result, error |-> error]
            \in AnswersAlone(tool, days, fault)
C9_Witness ==
    /\ Answered /\ prior = "returned" /\ filtered_logs # <<>>
    /\ tool = "get_model_usage_stats" /\ ~IsEmptyResult(result)

\* C10: get_bedrock_logs returns the complete extraction or nothing: after
\* a fault at any page the accumulated records are dropped.
C10_AllOrNothing ==
    LogsReturned =>
        /\ logs = <<>> \/ logs = Projection(Wanted)
        /\ fault # "none" => logs = <<>>
C10_Witness ==
    /\ LogsReturned /\ fault = "ClientError"
    /\ pageNo = 1 /\ page = <<>> /\ filtered_logs # <<>> /\ logs = <<>>

=============================================================================
